---- MODULE Spec2Model ----
(***************************************************************************)
(* A model of ts_flattener.py: the file selector, the priority ranker, the *)
(* import annotator and the chunk packer ProjectFlattener.flatten.         *)
(*                                                                         *)
(* Text (paths, file content) is a sequence of atoms.  An atom stands for  *)
(* a run of characters that the program's string tests never look inside:  *)
(* "/" and "." are the characters themselves, "build", "ts", "src", ...    *)
(* are whole words.  Substring, prefix and suffix tests are computed on    *)
(* the atom sequence, so "/a" \o "build" (the directory abuild) contains   *)
(* the word build without having a segment equal to it.                    *)
(***************************************************************************)
EXTENDS Integers, Sequences, FiniteSets, TLC

VARIABLES
    \* ---- pure-function specifications: the call and what it returned
    arg,                  \* the arguments of the call
    ret,                  \* <<>> before the call, <<value>> after it
    \* ---- ProjectFlattener fields (set by __init__)
    tokens_per_file,
    prioritize_paths,
    \* ---- the file system flatten() walks
    walk,                 \* the files os.walk yields, in discovery order
    \* ---- locals of flatten()
    pc,
    all_files,
    excluded_files,
    idx,                  \* position of the for loop in all_files
    current_chunk,        \* sequence of [path, tokens] entries
    current_token_count,
    chunk_number,
    chunks,               \* the dict, as a sequence of [key, files] in insertion order
    \* ---- output
    disk,                 \* the chunk numbers write_chunk wrote, in write order
    manifest,             \* <<>> or <<the manifest written>>
    \* ---- history: what happened to each file of all_files
    outcome               \* sequence of [file, what, tokens], one per loop iteration

vars == <<arg, ret, tokens_per_file, prioritize_paths, walk, pc, all_files,
          excluded_files, idx, current_chunk, current_token_count,
          chunk_number, chunks, disk, manifest, outcome>>

flattenVars == <<tokens_per_file, prioritize_paths, walk, pc, all_files,
                 excluded_files, idx, current_chunk, current_token_count,
                 chunk_number, chunks, disk, manifest, outcome>>

-----------------------------------------------------------------------------
(* Strings                                                                 *)

\* Python's `p in s`
Contains(s, p) ==
    \E k \in 0..(Len(s) - Len(p)) : SubSeq(s, k + 1, k + Len(p)) = p

\* Python's s.endswith(p)
EndsWith(s, p) ==
    Len(p) <= Len(s) /\ SubSeq(s, Len(s) - Len(p) + 1, Len(s)) = p

\* Python's s.startswith(p)
StartsWith(s, p) ==
    Len(p) <= Len(s) /\ SubSeq(s, 1, Len(p)) = p

RECURSIVE SplitFrom(_, _, _)
SplitFrom(s, k, cur) ==
    IF k > Len(s) THEN <<cur>>
    ELSE IF s[k] = "/" THEN <<cur>> \o SplitFrom(s, k + 1, <<>>)
    ELSE SplitFrom(s, k + 1, Append(cur, s[k]))

\* the parts of s between its "/" separators
Split(s) == SplitFrom(s, 1, <<>>)

RECURSIVE Join(_)
\* "/".join(segs)
Join(segs) ==
    IF segs = <<>> THEN <<>>
    ELSE IF Len(segs) = 1 THEN segs[1]
    ELSE segs[1] \o <<"/">> \o Join(Tail(segs))

\* pathlib's anchor on POSIX: exactly two leading slashes are kept, any other
\* number of them is one root
Root(path) ==
    IF StartsWith(path, <<"/", "/">>) /\ ~StartsWith(path, <<"/", "/", "/">>)
    THEN <<"/", "/">>
    ELSE IF StartsWith(path, <<"/">>) THEN <<"/">>
    ELSE <<>>

RECURSIVE DropDots(_)
\* pathlib drops empty and "." segments when it parses a path
DropDots(segs) ==
    IF segs = <<>> THEN <<>>
    ELSE IF Head(segs) = <<>> \/ Head(segs) = <<".">> THEN DropDots(Tail(segs))
    ELSE <<Head(segs)>> \o DropDots(Tail(segs))

RECURSIVE DropParents(_, _)
\* resolve() walks the segments and lets ".." remove the one before it
\* (the root is its own parent)
DropParents(segs, done) ==
    IF segs = <<>> THEN done
    ELSE IF Head(segs) = <<".", ".">>
         THEN DropParents(Tail(segs),
                          IF done = <<>> THEN <<>>
                          ELSE SubSeq(done, 1, Len(done) - 1))
    ELSE DropParents(Tail(segs), Append(done, Head(segs)))

\* str(Path(file_path)).replace(os.sep, '/')
PathStr(file_path) ==
    LET segs == DropDots(Split(file_path))
    IN  IF Root(file_path) = <<>> /\ segs = <<>> THEN <<".">>
        ELSE Root(file_path) \o Join(segs)

\* str(Path(file_path).resolve()).replace(os.sep, '/') for an absolute path
\* in a tree without symbolic links
Resolve(file_path) ==
    Root(file_path) \o Join(DropParents(DropDots(Split(file_path)), <<>>))

-----------------------------------------------------------------------------
(* File Selector                                                           *)

excluded_dirs ==
    { <<"node_modules">>, <<"build">>, <<"dist">>,
      <<".", "next">>, <<".", "git">>, <<".", "cache">> }

extensions ==
    { <<".", "ts">>, <<".", "tsx">>, <<".", "js">>, <<".", "jsx">>,
      <<".", "css">>, <<".", "scss">>, <<".", "json">> }

\* a plain substring test, without segment boundaries
InExcludedDirLoose(normalized_path) ==
    \E excluded \in excluded_dirs : Contains(normalized_path, excluded)

InExcludedDir(normalized_path) ==
    \E excluded \in excluded_dirs :
        \/ Contains(normalized_path, <<"/">> \o excluded \o <<"/">>)
        \/ EndsWith(normalized_path, <<"/">> \o excluded)

HasExtension(normalized_path) ==
    \E ext \in extensions : EndsWith(normalized_path, ext)

IsTestFile(normalized_path) ==
    \/ EndsWith(normalized_path, <<".", "test", ".", "ts">>)
    \/ EndsWith(normalized_path, <<".", "test", ".", "tsx">>)

is_relevant_file(file_path) ==
    LET normalized_path == Resolve(file_path)
    IN  IF InExcludedDir(normalized_path) THEN FALSE
        ELSE IF ~HasExtension(normalized_path) THEN FALSE
        ELSE IF IsTestFile(normalized_path) THEN FALSE
        ELSE TRUE

-----------------------------------------------------------------------------
(* Priority Ranker                                                         *)

\* the dict literal, in insertion order
priorities ==
    << [key |-> "components", priority |-> 1],
       [key |-> "pages",      priority |-> 2],
       [key |-> "features",   priority |-> 3],
       [key |-> "utils",      priority |-> 4],
       [key |-> "types",      priority |-> 5],
       [key |-> "styles",     priority |-> 6] >>

RECURSIVE TableScanLast(_, _)
\* a scan without the early return: the last matching entry wins
TableScanLast(normalized_path, k) ==
    IF k > Len(priorities) THEN 99
    ELSE LET later == TableScanLast(normalized_path, k + 1)
         IN  IF later # 99 THEN later
             ELSE IF Contains(normalized_path, <<"/", priorities[k].key, "/">>)
                  THEN priorities[k].priority
             ELSE 99

RECURSIVE TableScan(_, _)
\* the for loop over priorities.items()
TableScan(normalized_path, k) ==
    IF k > Len(priorities) THEN 99
    ELSE IF Contains(normalized_path, <<"/", priorities[k].key, "/">>)
         THEN priorities[k].priority
    ELSE TableScan(normalized_path, k + 1)

get_file_priority(file_path, prioritize) ==
    LET normalized_path == PathStr(file_path)
    IN  IF \E k \in 1..Len(prioritize) : Contains(normalized_path, prioritize[k])
        THEN 0
        ELSE TableScan(normalized_path, 1)

-----------------------------------------------------------------------------
(* Chunk Packer: ProjectFlattener.flatten                                  *)

\* self.project_path
project_path == <<"/", "p">>

\* the files a project tree may hold
Tree ==
    { project_path \o <<"/", "src", "/", "components", "/", "A", ".", "ts">>,
      project_path \o <<"/", "src", "/", "utils", "/", "B", ".", "ts">>,
      project_path \o <<"/", "C", ".", "ts">>,
      project_path \o <<"/", "D", ".", "json">>,
      project_path \o <<"/", "README", ".", "md">> }

\* the budgets a caller may configure (scaled down from the default 150000)
Budgets == {2, 3}

\* prioritize_paths a caller may configure: none, or the first entry of __main__'s list
PrioritizeOptions == { <<>>, << <<"src", "/", "components">> >> }

\* the most files one walk finds
MaxFiles == 3

\* what estimate_tokens may return for a file's annotated content under
\* budget b: a small file, one that fills a chunk alone, one over the budget
TokenCosts(b) == {1, b, b + 1}

Range(s) == { s[k] : k \in 1..Len(s) }

Walks ==
    { w \in UNION { [1..n -> Tree] : n \in 0..MaxFiles } :
        \A a, b \in 1..Len(w) : a # b => w[a] # w[b] }

\* os.path.relpath(file_path, self.project_path) for a file under the root
RelPath(file_path) ==
    SubSeq(file_path, Len(project_path) + 2, Len(file_path))

RECURSIVE SelectRelevant(_, _)
\* the os.walk loop: all_files (keep = TRUE) or excluded_files (keep = FALSE)
SelectRelevant(files, keep) ==
    IF files = <<>> THEN <<>>
    ELSE IF is_relevant_file(Head(files)) = keep
         THEN <<Head(files)>> \o SelectRelevant(Tail(files), keep)
    ELSE SelectRelevant(Tail(files), keep)

\* an unstable insertion: a file goes in front of the files of equal key
InsertByKeyUnstable(sorted, f, prioritize) ==
    LET key(x) == get_file_priority(x, prioritize)
        n == Cardinality({ k \in 1..Len(sorted) : key(sorted[k]) < key(f) })
    IN  SubSeq(sorted, 1, n) \o <<f>> \o SubSeq(sorted, n + 1, Len(sorted))

\* list.sort is stable: a file goes behind every file whose key is <= its own
InsertByKey(sorted, f, prioritize) ==
    LET key(x) == get_file_priority(x, prioritize)
        n == Cardinality({ k \in 1..Len(sorted) : key(sorted[k]) <= key(f) })
    IN  SubSeq(sorted, 1, n) \o <<f>> \o SubSeq(sorted, n + 1, Len(sorted))

RECURSIVE SortByPriority(_, _)
\* all_files.sort(key=self.get_file_priority)
SortByPriority(files, prioritize) ==
    IF files = <<>> THEN <<>>
    ELSE InsertByKey(SortByPriority(SubSeq(files, 1, Len(files) - 1), prioritize),
                     files[Len(files)], prioritize)

\* a flush test that forgets the incoming file's cost
NeedsFlushIgnoringFile(count, file_tokens, chunk, budget) ==
    count > budget /\ chunk # <<>>

\* `current_token_count + file_tokens > self.tokens_per_file and current_chunk`
NeedsFlush(count, file_tokens, chunk, budget) ==
    count + file_tokens > budget /\ chunk # <<>>

\* [f[0] for f in current_chunk]
ChunkFiles(chunk) == [k \in 1..Len(chunk) |-> chunk[k].path]

\* chunks[chunk_file] = files: a known key keeps its place, a new one goes last
DictSet(d, key, files) ==
    IF \E k \in 1..Len(d) : d[k].key = key
    THEN [k \in 1..Len(d) |->
            IF d[k].key = key THEN [key |-> key, files |-> files] ELSE d[k]]
    ELSE Append(d, [key |-> key, files |-> files])

\* a counter that is not advanced after a flush
NextChunkNumberStuck(n) == n

\* chunk_number += 1
NextChunkNumber(n) == n + 1

\* the manifest dict of create_chunk_manifest
create_chunk_manifest(d) ==
    [ project_path |-> project_path,
      total_chunks |-> Len(d),
      chunks |-> [k \in 1..Len(d) |->
                    [ chunk_file |-> d[k].key,
                      files      |-> d[k].files,
                      file_count |-> Len(d[k].files) ]] ]

-----------------------------------------------------------------------------
(* flatten(), step by step                                                 *)

\* the state after ProjectFlattener.__init__, when flatten() is entered
Init ==
    /\ arg = <<>>
    /\ ret = <<>>
    /\ tokens_per_file \in Budgets
    /\ prioritize_paths \in PrioritizeOptions
    /\ walk \in Walks
    /\ pc = "scan"
    /\ all_files = <<>>
    /\ excluded_files = <<>>
    /\ idx = 1
    /\ current_chunk = <<>>
    /\ current_token_count = 0
    /\ chunk_number = 1
    /\ chunks = <<>>
    /\ disk = <<>>
    /\ manifest = <<>>
    /\ outcome = <<>>

\* the os.walk loop
Scan ==
    /\ pc = "scan"
    /\ all_files' = SelectRelevant(walk, TRUE)
    /\ excluded_files' = SelectRelevant(walk, FALSE)
    /\ pc' = "sort"
    /\ UNCHANGED <<arg, ret, tokens_per_file, prioritize_paths, walk, idx,
                   current_chunk, current_token_count, chunk_number, chunks,
                   disk, manifest, outcome>>

\* the sort and the initialisation of the packer's locals
Sort ==
    /\ pc = "sort"
    /\ all_files' = SortByPriority(all_files, prioritize_paths)
    /\ current_chunk' = <<>>
    /\ current_token_count' = 0
    /\ chunk_number' = 1
    /\ chunks' = <<>>
    /\ idx' = 1
    /\ pc' = "loop"
    /\ UNCHANGED <<arg, ret, tokens_per_file, prioritize_paths, walk,
                   excluded_files, disk, manifest, outcome>>

InLoop == pc = "loop" /\ idx <= Len(all_files)

Entry(file_path, file_tokens) ==
    [path |-> RelPath(file_path), tokens |-> file_tokens]

Record(file_path, what, file_tokens) ==
    [file |-> file_path, what |-> what, tokens |-> file_tokens]

\* a read failure that is not caught
ReadErrorFatal ==
    /\ InLoop
    /\ outcome' = Append(outcome, Record(all_files[idx], "read_error", 0))
    /\ pc' = "raised"
    /\ UNCHANGED <<arg, ret, tokens_per_file, prioritize_paths, walk, all_files,
                   excluded_files, idx, current_chunk, current_token_count,
                   chunk_number, chunks, disk, manifest>>

\* open() or read() raises: the except clause reports it, the loop goes on
ReadError ==
    /\ InLoop
    /\ outcome' = Append(outcome, Record(all_files[idx], "read_error", 0))
    /\ idx' = idx + 1
    /\ UNCHANGED <<arg, ret, tokens_per_file, prioritize_paths, walk, pc,
                   all_files, excluded_files, current_chunk,
                   current_token_count, chunk_number, chunks, disk, manifest>>

\* the file is read and fits (or the chunk is empty): it is appended
AppendFile ==
    /\ InLoop
    /\ \E file_tokens \in TokenCosts(tokens_per_file) :
        /\ ~NeedsFlush(current_token_count, file_tokens, current_chunk,
                       tokens_per_file)
        /\ current_chunk' = Append(current_chunk, Entry(all_files[idx], file_tokens))
        /\ current_token_count' = current_token_count + file_tokens
        /\ outcome' = Append(outcome, Record(all_files[idx], "packed", file_tokens))
    /\ idx' = idx + 1
    /\ UNCHANGED <<arg, ret, tokens_per_file, prioritize_paths, walk, pc,
                   all_files, excluded_files, chunk_number, chunks, disk,
                   manifest>>

\* the file is read and does not fit: the chunk is written, recorded and
\* reset, and the file starts the next one
FlushAndAppend ==
    /\ InLoop
    /\ \E file_tokens \in TokenCosts(tokens_per_file) :
        /\ NeedsFlush(current_token_count, file_tokens, current_chunk,
                      tokens_per_file)
        /\ current_chunk' = <<Entry(all_files[idx], file_tokens)>>
        /\ current_token_count' = file_tokens
        /\ outcome' = Append(outcome, Record(all_files[idx], "packed", file_tokens))
    /\ disk' = Append(disk, chunk_number)
    /\ chunks' = DictSet(chunks, chunk_number, ChunkFiles(current_chunk))
    /\ chunk_number' = NextChunkNumber(chunk_number)
    /\ idx' = idx + 1
    /\ UNCHANGED <<arg, ret, tokens_per_file, prioritize_paths, walk, pc,
                   all_files, excluded_files, manifest>>

\* the file is read and does not fit, and write_chunk raises inside the try
\* block: the same except clause reports it and the loop goes on
FlushError ==
    /\ InLoop
    /\ \E file_tokens \in TokenCosts(tokens_per_file) :
        /\ NeedsFlush(current_token_count, file_tokens, current_chunk,
                      tokens_per_file)
        /\ outcome' = Append(outcome, Record(all_files[idx], "flush_error", file_tokens))
    /\ idx' = idx + 1
    /\ UNCHANGED <<arg, ret, tokens_per_file, prioritize_paths, walk, pc,
                   all_files, excluded_files, current_chunk,
                   current_token_count, chunk_number, chunks, disk, manifest>>

LoopOver == pc = "loop" /\ idx > Len(all_files)

\* after the loop: the last chunk is written and recorded
FinalFlush ==
    /\ LoopOver
    /\ current_chunk # <<>>
    /\ disk' = Append(disk, chunk_number)
    /\ chunks' = DictSet(chunks, chunk_number, ChunkFiles(current_chunk))
    /\ pc' = "manifest"
    /\ UNCHANGED <<arg, ret, tokens_per_file, prioritize_paths, walk, all_files,
                   excluded_files, idx, current_chunk, current_token_count,
                   chunk_number, manifest, outcome>>

\* after the loop: write_chunk raises, outside any try block
FinalFlushError ==
    /\ LoopOver
    /\ current_chunk # <<>>
    /\ pc' = "raised"
    /\ UNCHANGED <<arg, ret, tokens_per_file, prioritize_paths, walk, all_files,
                   excluded_files, idx, current_chunk, current_token_count,
                   chunk_number, chunks, disk, manifest, outcome>>

\* after the loop: nothing is left to write
NoFinalFlush ==
    /\ LoopOver
    /\ current_chunk = <<>>
    /\ pc' = "manifest"
    /\ UNCHANGED <<arg, ret, tokens_per_file, prioritize_paths, walk, all_files,
                   excluded_files, idx, current_chunk, current_token_count,
                   chunk_number, chunks, disk, manifest, outcome>>

\* create_chunk_manifest writes manifest.json and flatten() returns
WriteManifest ==
    /\ pc = "manifest"
    /\ manifest' = <<create_chunk_manifest(chunks)>>
    /\ pc' = "done"
    /\ UNCHANGED <<arg, ret, tokens_per_file, prioritize_paths, walk, all_files,
                   excluded_files, idx, current_chunk, current_token_count,
                   chunk_number, chunks, disk, outcome>>

\* create_chunk_manifest raises
WriteManifestError ==
    /\ pc = "manifest"
    /\ pc' = "raised"
    /\ UNCHANGED <<arg, ret, tokens_per_file, prioritize_paths, walk, all_files,
                   excluded_files, idx, current_chunk, current_token_count,
                   chunk_number, chunks, disk, manifest, outcome>>

Next ==
    \/ Scan
    \/ Sort
    \/ ReadError
    \/ AppendFile
    \/ FlushAndAppend
    \/ FlushError
    \/ FinalFlush
    \/ FinalFlushError
    \/ NoFinalFlush
    \/ WriteManifest
    \/ WriteManifestError

Spec == Init /\ [][Next]_vars

-----------------------------------------------------------------------------
(* What the claims speak of                                                *)

RECURSIVE Concat(_)
Concat(seqs) == IF seqs = <<>> THEN <<>> ELSE Head(seqs) \o Concat(Tail(seqs))

\* the files a manifest lists, chunk after chunk
ManifestFiles(m) == Concat([k \in 1..Len(m.chunks) |-> m.chunks[k].files])

\* the files recorded so far, chunk after chunk
RecordedFiles == Concat([k \in 1..Len(chunks) |-> chunks[k].files])

\* the selected files whose read succeeded, by relative path
ReadFiles ==
    { RelPath(f) : f \in { g \in Range(walk) :
        /\ is_relevant_file(g)
        /\ \E k \in 1..Len(outcome) :
              outcome[k].file = g /\ outcome[k].what # "read_error" } }

\* the estimated cost of a packed file
TokensOf(rel_path) ==
    LET k == CHOOSE j \in 1..Len(outcome) :
                 RelPath(outcome[j].file) = rel_path /\ outcome[j].what = "packed"
    IN  outcome[k].tokens

RECURSIVE SumOf(_)
SumOf(costs) == IF costs = <<>> THEN 0 ELSE Head(costs) + SumOf(Tail(costs))

ChunkCost(files) == SumOf([k \in 1..Len(files) |-> TokensOf(files[k])])

\* a chunk respects the budget unless it holds exactly one file, and the
\* total before its last file was within the budget
WithinBudget(costs) ==
    /\ Len(costs) # 1 => SumOf(costs) <= tokens_per_file
    /\ Len(costs) >= 2 => SumOf(SubSeq(costs, 1, Len(costs) - 1)) <= tokens_per_file

WalkIndex(rel_path) ==
    CHOOSE k \in 1..Len(walk) : RelPath(walk[k]) = rel_path

KeyOf(rel_path) ==
    get_file_priority(project_path \o <<"/">> \o rel_path, prioritize_paths)

-----------------------------------------------------------------------------
(* Claims about flatten()                                                  *)

\* C1 (as claimed): once the manifest is written, its chunk entries list
\* exactly the selected files whose read succeeded, each once, and every
\* file_count is the length of its files list.
C1_ManifestComplete ==
    manifest # <<>> =>
        LET m == manifest[1]
        IN  /\ Range(ManifestFiles(m)) = ReadFiles
            /\ Len(ManifestFiles(m)) = Cardinality(ReadFiles)
            /\ \A k \in 1..Len(m.chunks) :
                  m.chunks[k].file_count = Len(m.chunks[k].files)

\* C2 (as claimed): a failed chunk write aborts the run at once: the error
\* leaves flatten(), no further file is processed and no manifest is written.
C2_OutputErrorsFatal ==
    \A k \in 1..Len(outcome) :
        outcome[k].what = "flush_error" =>
            pc = "raised" /\ manifest = <<>> /\ Len(outcome) = k

\* C3: the current chunk and every recorded chunk cost at most
\* tokens_per_file unless they hold exactly one file, the total before the
\* last file of a chunk of two or more was within the budget, and
\* current_token_count is the cost of the current chunk.
C3_Budget ==
    /\ pc = "loop" =>
          current_token_count =
              SumOf([k \in 1..Len(current_chunk) |-> current_chunk[k].tokens])
    /\ WithinBudget([k \in 1..Len(current_chunk) |-> current_chunk[k].tokens])
    /\ \A c \in 1..Len(chunks) :
          WithinBudget([k \in 1..Len(chunks[c].files) |->
                           TokensOf(chunks[c].files[k])])

C3_Witness ==
    /\ pc = "done"
    /\ \E c \in 1..Len(chunks) :
          /\ Len(chunks[c].files) >= 2
          /\ ChunkCost(chunks[c].files) = tokens_per_file
    /\ \E c \in 1..Len(chunks) :
          /\ Len(chunks[c].files) = 1
          /\ ChunkCost(chunks[c].files) > tokens_per_file

\* C4 (as claimed): a file that was read and costs more than tokens_per_file
\* is packed whole and is the only member of its chunk.
C4_OversizeAlone ==
    \A k \in 1..Len(outcome) :
        (outcome[k].what # "read_error" /\ outcome[k].tokens > tokens_per_file) =>
            \/ current_chunk = <<Entry(outcome[k].file, outcome[k].tokens)>>
            \/ \E c \in 1..Len(chunks) :
                  chunks[c].files = <<RelPath(outcome[k].file)>>

\* C5: a step in which a read fails leaves the current chunk, the running
\* total, the chunk counter, the recorded chunks and the output alone, raises
\* nothing and moves on to the next file; a file whose read failed is in no
\* chunk and in no manifest entry.
C5_ReadErrorSkips ==
    /\ [][ ( /\ Len(outcome') = Len(outcome) + 1
             /\ outcome'[Len(outcome')].what = "read_error" )
           => /\ UNCHANGED <<current_chunk, current_token_count, chunk_number,
                             chunks, disk, manifest>>
              /\ pc = "loop" /\ pc' = "loop"
              /\ idx' = idx + 1 ]_vars
    /\ [](\A k \in 1..Len(outcome) :
            outcome[k].what = "read_error" =>
                LET p == RelPath(outcome[k].file)
                IN  /\ \A j \in 1..Len(current_chunk) : current_chunk[j].path # p
                    /\ p \notin Range(RecordedFiles)
                    /\ manifest # <<>> => p \notin Range(ManifestFiles(manifest[1])))

C5_Witness ==
    /\ pc = "done"
    /\ manifest # <<>>
    /\ Len(outcome) >= 3
    /\ outcome[1].what = "packed"
    /\ outcome[2].what = "read_error"
    /\ outcome[3].what = "packed"
    /\ Len(ManifestFiles(manifest[1])) = 2

\* C7: the manifest's files, read chunk by chunk, are in non-decreasing
\* priority, and files of equal priority are in the order the walk found them.
C7_PackingOrder ==
    manifest # <<>> =>
        LET packed == ManifestFiles(manifest[1])
        IN  \A a, b \in 1..Len(packed) :
                a < b =>
                    /\ KeyOf(packed[a]) <= KeyOf(packed[b])
                    /\ KeyOf(packed[a]) = KeyOf(packed[b]) =>
                          WalkIndex(packed[a]) < WalkIndex(packed[b])

C7_Witness ==
    /\ manifest # <<>>
    /\ LET packed == ManifestFiles(manifest[1])
       IN  /\ Len(packed) = 3
           /\ KeyOf(packed[1]) = 0
           /\ KeyOf(packed[2]) = 99
           /\ KeyOf(packed[3]) = 99
           /\ WalkIndex(packed[1]) = 3
           /\ Len(manifest[1].chunks) >= 2

\* C10: the recorded chunks are chunk_1 .. chunk_k in this order, k the
\* number of chunk files written, each written once and none empty; during
\* the loop the counter is k + 1; the manifest's total_chunks is k, and it is
\* 0 when no file was selected.
C10_SequentialChunks ==
    /\ [k \in 1..Len(chunks) |-> chunks[k].key] = [k \in 1..Len(disk) |-> k]
    /\ disk = [k \in 1..Len(disk) |-> k]
    /\ \A k \in 1..Len(chunks) : chunks[k].files # <<>>
    /\ pc = "loop" => chunk_number = Len(disk) + 1
    /\ manifest # <<>> =>
          /\ manifest[1].total_chunks = Len(disk)
          /\ Len(manifest[1].chunks) = Len(disk)
          /\ all_files = <<>> => manifest[1].total_chunks = 0

C10_Witness ==
    /\ manifest # <<>>
    /\ manifest[1].total_chunks = 2
    /\ \E k \in 1..Len(outcome) : outcome[k].what = "flush_error"

-----------------------------------------------------------------------------
(* The pure functions, called on their own                                 *)

\* the constructor's default budget
DefaultTokensPerFile == 150000

\* no flatten() is running
Idle ==
    /\ tokens_per_file = DefaultTokensPerFile
    /\ walk = <<>>
    /\ pc = "idle"
    /\ all_files = <<>>
    /\ excluded_files = <<>>
    /\ idx = 1
    /\ current_chunk = <<>>
    /\ current_token_count = 0
    /\ chunk_number = 1
    /\ chunks = <<>>
    /\ disk = <<>>
    /\ manifest = <<>>
    /\ outcome = <<>>

\* ---- is_relevant_file

\* directory names: plain, excluded, an excluded word inside a longer name,
\* a dot directory, and the segments pathlib rewrites ("", ".", "..")
DirNames ==
    { <<"a">>, <<"build">>, <<"a", "build">>, <<"build", "a">>,
      <<".", "git">>, <<"a", ".", "git">>, <<".">>, <<".", ".">>, <<>> }

Stems == { <<"a">>, <<"build">>, <<>> }

ExtChains ==
    { <<>>, <<".", "ts">>, <<".", "tsx">>, <<".", "json">>, <<".", "md">>,
      <<".", "test">>, <<".", "test", ".", "ts">>, <<".", "test", ".", "tsx">>,
      <<".", "test", ".", "json">>, <<".", "ts", ".", "md">>,
      <<".", "md", ".", "ts">>, <<".", "git">> }

\* the deepest directory nesting of the paths considered
MaxDirs == 2

SelectorPaths ==
    { <<"/">> \o Join(dirs \o <<stem \o exts>>) :
        dirs \in UNION { [1..n -> DirNames] : n \in 0..MaxDirs },
        stem \in Stems, exts \in ExtChains }

InitRelevant ==
    /\ arg \in { [fn |-> "is_relevant_file", file_path |-> p] : p \in SelectorPaths }
    /\ ret = <<>>
    /\ prioritize_paths = <<>>
    /\ Idle

CallRelevant ==
    /\ ret = <<>>
    /\ arg.fn = "is_relevant_file"
    /\ ret' = <<is_relevant_file(arg.file_path)>>
    /\ UNCHANGED <<arg, flattenVars>>

NextRelevant == CallRelevant

SpecRelevant == InitRelevant /\ [][NextRelevant]_vars

\* the part of a file name from its last "." on (nothing when it has no ".")
FinalExtension(name) ==
    LET dots == { k \in 1..Len(name) : name[k] = "." }
    IN  IF dots = {} THEN <<>>
        ELSE SubSeq(name, CHOOSE k \in dots : \A j \in dots : j <= k, Len(name))

PriorityAtoms == {"/", ".", "src", "components", "pages", "utils"}

\* the longest directory part of the paths considered, in atoms
MaxPathLen == 5

PriorityTails == { <<>>, <<"Foo", ".", "ts">> }

PriorityPaths ==
    { head \o tail :
        head \in UNION { [1..n -> PriorityAtoms] : n \in 0..MaxPathLen },
        tail \in PriorityTails }

\* the prioritize_paths considered: the default, the spec's example, __main__'s
\* list, and a list holding the empty string
PriorityLists ==
    { <<>>,
      << <<"src", "/", "components">> >>,
      << <<"src", "/", "components">>, <<"src", "/", "pages">>,
         <<"src", "/", "features">> >>,
      << <<>> >> }

InitPriority ==
    /\ arg \in { [fn |-> "get_file_priority", file_path |-> p] : p \in PriorityPaths }
    /\ ret = <<>>
    /\ prioritize_paths \in PriorityLists
    /\ Idle

CallPriority ==
    /\ ret = <<>>
    /\ arg.fn = "get_file_priority"
    /\ ret' = <<get_file_priority(arg.file_path, prioritize_paths)>>
    /\ UNCHANGED <<arg, flattenVars>>

NextPriority == CallPriority

SpecPriority == InitPriority /\ [][NextPriority]_vars

HasSegment(normalized_path, name) == Contains(normalized_path, <<"/", name, "/">>)

\* C6: get_file_priority is 0 when the normalized path contains a string of
\* prioritize_paths; otherwise the priority of the first of components,
\* pages, features, utils, types, styles (in this order) whose /name/ is in
\* the path; otherwise 99.  src/components/Foo.ts ranks 1 with no prioritize
\* list and 0 with ["src/components"].
C6_Priority ==
    (ret # <<>> /\ arg.fn = "get_file_priority") =>
        LET np == PathStr(arg.file_path)
            Foo == <<"src", "/", "components", "/", "Foo", ".", "ts">>
        IN  /\ ret[1] =
                  IF \E p \in Range(prioritize_paths) : Contains(np, p) THEN 0
                  ELSE IF HasSegment(np, "components") THEN 1
                  ELSE IF HasSegment(np, "pages") THEN 2
                  ELSE IF HasSegment(np, "features") THEN 3
                  ELSE IF HasSegment(np, "utils") THEN 4
                  ELSE IF HasSegment(np, "types") THEN 5
                  ELSE IF HasSegment(np, "styles") THEN 6
                  ELSE 99
            /\ ret[1] \in {0, 1, 2, 3, 4, 5, 6, 99}
            /\ get_file_priority(Foo, <<>>) = 1
            /\ get_file_priority(Foo, << <<"src", "/", "components">> >>) = 0

\* a path with utils before components ranks by the table, not by the path
C6_Witness ==
    /\ ret = <<1>>
    /\ arg.fn = "get_file_priority"
    /\ arg.file_path = <<"/", "utils", "/", "components", "/", "Foo", ".", "ts">>
    /\ prioritize_paths = << <<"src", "/", "components">> >>

\* ---- process_imports and the banner

Whitespace == {" ", "\n"}

Quotes == {"'"}

\* the literal texts of replace_import's two comments
OriginalComment == "// Original import: "

FlattenedComment == "// Flattened version would be: import from '"

\* `from\s+['"]` at position f: the position of the quote, or 0
QuoteAfterFrom(content, f) ==
    IF f > Len(content) \/ content[f] # "from" THEN 0
    ELSE LET ws == { q \in (f + 1)..Len(content) :
                        \A j \in (f + 1)..q : content[j] \in Whitespace }
             q == f + Cardinality(ws) + 1
         IN  IF ws # {} /\ q <= Len(content) /\ content[q] \in Quotes
             THEN q ELSE 0

\* `(.[^'"]*)(['"])` from position g: the position of the closing quote, or 0
ClosingQuote(content, g) ==
    IF g > Len(content) \/ content[g] = "\n" THEN 0
    ELSE LET later == { e \in (g + 1)..Len(content) : content[e] \in Quotes }
         IN  IF later = {} THEN 0
             ELSE CHOOSE e \in later : \A j \in later : e <= j

\* the match of import_pattern that starts at position s: [from, quote, end],
\* end = 0 when there is none.  `.*` is greedy and stays on one line, so the
\* last `from` of the line that completes the pattern is taken.
MatchAt(content, s) ==
    LET froms == { f \in (s + 1)..Len(content) :
                      /\ \A j \in (s + 1)..(f - 1) : content[j] # "\n"
                      /\ QuoteAfterFrom(content, f) # 0
                      /\ ClosingQuote(content, QuoteAfterFrom(content, f) + 1) # 0 }
    IN  IF content[s] # "import" \/ froms = {}
        THEN [from |-> 0, quote |-> 0, end |-> 0]
        ELSE LET f == CHOOSE x \in froms : \A y \in froms : y <= x
                 q == QuoteAfterFrom(content, f)
             IN  [from |-> f, quote |-> q, end |-> ClosingQuote(content, q + 1)]

\* a replacement that keeps the statement after the two comment lines
replace_importKeeping(matched, import_path) ==
    IF StartsWith(import_path, <<".">>)
    THEN <<OriginalComment>> \o matched \o <<"\n", FlattenedComment>>
            \o import_path \o <<"'", "\n">> \o matched
    ELSE matched

\* replace_import(match): matched is match.group(0), import_path match.group(2)
replace_import(matched, import_path) ==
    IF StartsWith(import_path, <<".">>)
    THEN <<OriginalComment>> \o matched \o <<"\n", FlattenedComment>>
            \o import_path \o <<"'">>
    ELSE matched

RECURSIVE SubFrom(_, _)
\* re.sub(import_pattern, replace_import, content), from position pos on:
\* leftmost matches, none overlapping, the text between them copied
SubFrom(content, pos) ==
    IF pos > Len(content) THEN <<>>
    ELSE LET m == MatchAt(content, pos)
         IN  IF m.end = 0 THEN <<content[pos]>> \o SubFrom(content, pos + 1)
             ELSE replace_import(SubSeq(content, pos, m.end),
                                 SubSeq(content, m.quote + 1, m.end - 1))
                      \o SubFrom(content, m.end + 1)

process_imports(content) == SubFrom(content, 1)

\* '#' * 80
BannerRule == "################"

\* the f-string that builds file_content
Annotated(content, rel_path) ==
    <<"\n", "\n", BannerRule, "\n", "# File: ">> \o rel_path
        \o <<"\n", BannerRule, "\n", "\n">> \o process_imports(content)

ContentAtoms == {"import", "from", " ", "\n", "'", "."}

\* the longest free part of a file's content, in atoms
MaxContentLen == 6

\* what may follow the free part: nothing, or a second import on the same
\* line whose specifier is not relative
ContentTails ==
    { <<>>, <<" ", "import", " ", "from", " ", "'", " ", "'", " ", "\n", " ">> }

Contents ==
    { head \o tail :
        head \in UNION { [1..n -> ContentAtoms] : n \in 0..MaxContentLen },
        tail \in ContentTails }

InitImports ==
    /\ arg \in { [fn |-> "process_imports", content |-> c,
                  rel_path |-> <<"A", ".", "ts">>] : c \in Contents }
    /\ ret = <<>>
    /\ prioritize_paths = <<>>
    /\ Idle

CallImports ==
    /\ ret = <<>>
    /\ arg.fn = "process_imports"
    /\ ret' = << [ processed_content |-> process_imports(arg.content),
                   file_content |-> Annotated(arg.content, arg.rel_path) ] >>
    /\ UNCHANGED <<arg, flattenVars>>

NextImports == CallImports

SpecImports == InitImports /\ [][NextImports]_vars

RECURSIVE StripFrom(_, _, _)
StripFrom(text, pos, in_comment) ==
    IF pos > Len(text) THEN <<>>
    ELSE IF in_comment
         THEN StripFrom(text, pos + 1, text[pos] # "\n")
    ELSE IF text[pos] \in {OriginalComment, FlattenedComment}
         THEN StripFrom(text, pos + 1, TRUE)
    ELSE <<text[pos]>> \o StripFrom(text, pos + 1, FALSE)

\* the text that is not inside an inserted comment: each comment runs from
\* its marker to the end of its line
StripCommentLines(text) == StripFrom(text, 1, FALSE)

RECURSIVE RestoreFrom(_, _, _)
RestoreFrom(text, pos, skipping) ==
    IF pos > Len(text) THEN <<>>
    ELSE IF skipping
         THEN RestoreFrom(text, pos + 1, text[pos] # "'")
    ELSE IF text[pos] = OriginalComment
         THEN RestoreFrom(text, pos + 1, FALSE)
    ELSE IF text[pos] = "\n" /\ pos < Len(text) /\ text[pos + 1] = FlattenedComment
         THEN RestoreFrom(text, pos + 2, TRUE)
    ELSE <<text[pos]>> \o RestoreFrom(text, pos + 1, FALSE)

\* the text with the inserted markers taken out again: every "// Original
\* import: " marker, and every second comment from the newline before it to
\* its closing quote
Restore(text) == RestoreFrom(text, 1, FALSE)

RECURSIVE RelativeMatches(_, _)
\* the matches of the pattern, found left to right, whose specifier starts
\* with ".": [text, path] of each
RelativeMatches(content, pos) ==
    IF pos > Len(content) THEN <<>>
    ELSE LET m == MatchAt(content, pos)
         IN  IF m.end = 0 THEN RelativeMatches(content, pos + 1)
             ELSE IF content[m.quote + 1] = "."
                  THEN << [ text |-> SubSeq(content, pos, m.end),
                            path |-> SubSeq(content, m.quote + 1, m.end - 1) ] >>
                          \o RelativeMatches(content, m.end + 1)
             ELSE RelativeMatches(content, m.end + 1)

Count(text, atom) == Cardinality({ k \in 1..Len(text) : text[k] = atom })

====
